---- MODULE Spec2Model ----
(***************************************************************************)
(* Model of the per-session state machine of telegram-quiz (src/app.py):   *)
(* the in-memory session store, the webhook handler and the helpers it     *)
(* calls.  A Python dict is a function whose DOMAIN is its set of keys, an  *)
(* optional value (None or v) is the tuple << >> or <<v>>, and a dict       *)
(* object has an identity (an id of the heap), because the START command    *)
(* replaces the stored object while other handlers may still hold the old   *)
(* one.  A handler is a sequence of segments that end at the blocking       *)
(* calls (the sends that may raise, the pacing sleep); Step runs one        *)
(* segment and Run runs a handler to its end.                               *)
(***************************************************************************)
EXTENDS Integers, Sequences, FiniteSets, TLC

VARIABLES QUESTIONS, sessions, heap, now, threads, delivery

vars == <<QUESTIONS, sessions, heap, now, threads, delivery>>

-----------------------------------------------------------------------------
(* Bounds of the model *)

\* the clock takes the values 0..MaxTime
MaxTime == 2

\* an event that would raise a score above MaxScore is not delivered
MaxScore == 3

-----------------------------------------------------------------------------
(* Values *)

None == << >>

Some(v) == <<v>>

Chats == {1}

Threads == {1, 2}

\* dict d after d[k] = v
Put(d, k, v) ==
    IF k \in DOMAIN d THEN [d EXCEPT ![k] = v]
    ELSE [x \in (DOMAIN d) \cup {k} |-> IF x = k THEN v ELSE d[x]]

\* d.get(k, default)
Get(d, k, default) == IF k \in DOMAIN d THEN d[k] ELSE default

\* d after d.setdefault(k, default)
Max(a, b) == IF a >= b THEN a ELSE b

\* x in lst, for a Python list
InList(x, lst) == \E i \in 1..Len(lst) : lst[i] = x

\* str.strip() on the strings of the model
Strip(s) ==
    CASE s \in {"", " ", "   "} -> ""
      [] s = " B " -> "B"
      [] s = " Look up " -> "Look up"
      [] OTHER -> s

\* str.upper() on the strings of the model
Upper(s) ==
    CASE s = "/start" -> "/START"
      [] s = "Ready" -> "READY"
      [] s = "Start Timer" -> "START TIMER"
      [] s = "hint" -> "HINT"
      [] s = "next" -> "NEXT"
      [] s = "b" -> "B"
      [] OTHER -> s

HINT_PENALTY_SECS == 20

HINT_BUTTON_DATA == "__HINT__"

NEXT_BUTTON_DATA == "__NEXT__"

PHOTO_BUTTON_DATA == "__PHOTO__"

-----------------------------------------------------------------------------
(* The question catalog (questions.json).  A question keeps its place in   *)
(* QUESTIONS as qid, the identity of its dict.                              *)

Question(vis, legacy, photo, opts, ans, hint, hint_image, expl) ==
    [qid |-> 0, is_visible |-> vis, display_question |-> legacy,
     expect_photo |-> photo, options |-> opts, answer |-> ans,
     hint |-> hint, hint_image |-> hint_image, explanations |-> expl]

\* a choice question with a hint text and one explanation text
QChoiceB(vis, legacy) ==
    Question(vis, legacy, FALSE, <<"A", "B", "C">>, "B",
             Some(" Look up "), None, <<"Because", " ">>)

\* a choice question whose hint is blank, without explanations
QChoiceD(vis, legacy) ==
    Question(vis, legacy, FALSE, <<"B", "C", "D">>, "D",
             Some("   "), Some(""), << >>)

\* a photo task with a hint image and one explanation text
QPhotoHint(vis, legacy) ==
    Question(vis, legacy, TRUE, << >>, "", None, Some("hint.png"), <<"Well done">>)

\* a photo task without hint and without explanations
QPhotoPlain(vis, legacy) ==
    Question(vis, legacy, TRUE, << >>, "", None, None, << >>)

WithIds(qs) == [i \in 1..Len(qs) |-> [qs[i] EXCEPT !.qid = i]]

Catalogs ==
    { WithIds(<<QChoiceD(None, None), QChoiceB(Some(FALSE), None),
                QPhotoPlain(Some(TRUE), Some(FALSE))>>),
      WithIds(<<QPhotoHint(None, Some(FALSE)), QPhotoHint(None, None),
                QChoiceB(Some(TRUE), None)>>),
      WithIds(<<QChoiceB(None, None), QChoiceD(None, Some(TRUE))>>),
      WithIds(<<QChoiceB(Some(FALSE), Some(TRUE))>>),
      WithIds(<<QPhotoHint(None, None)>>) }

\* bool(q.get("is_visible", q.get("display_question", True)))
IsVisible(q) ==
    IF q.is_visible # None THEN q.is_visible[1]
    ELSE IF q.display_question # None THEN q.display_question[1]
    ELSE TRUE

\* load_questions accepts the catalog: every visible question that is no
\* photo task has exactly 3 options and its answer among them
load_questions(qs) ==
    \A i \in 1..Len(qs) :
        (IsVisible(qs[i]) /\ ~qs[i].expect_photo) =>
            /\ Len(qs[i].options) = 3
            /\ InList(qs[i].answer, qs[i].options)

\* get_active_questions without its visibility filter
get_active_questions_unfiltered(qs) == qs

\* the visible questions, in catalog order
get_active_questions(qs) == SelectSeq(qs, IsVisible)

\* to_list on a list of strings: the entries that are not blank
to_list(value) == SelectSeq(value, LAMBDA v : Strip(v) # "")

-----------------------------------------------------------------------------
(* The active timer of a session dict, at clock value t *)

\* a resume that starts a segment whether or not one is running
timer_resume_restarting(sess, t) == Put(sess, "time_segment_started", Some(t))

timer_resume(sess, t) ==
    IF Get(sess, "time_segment_started", None) = None
    THEN Put(sess, "time_segment_started", Some(t))
    ELSE sess

timer_pause(sess, t) ==
    IF Get(sess, "time_segment_started", None) # None
    THEN Put(Put(sess, "time_accum",
                 Get(sess, "time_accum", 0) + (t - sess.time_segment_started[1])),
             "time_segment_started", None)
    ELSE sess

timer_elapsed(sess, t) ==
    Max(0, IF Get(sess, "time_segment_started", None) # None
           THEN Get(sess, "time_accum", 0) + (t - sess.time_segment_started[1])
           ELSE Get(sess, "time_accum", 0))

-----------------------------------------------------------------------------
(* Session dicts *)

\* the dict ensure_session stores for an unseen chat
NewSession ==
    [index |-> 0, score |-> 0, team_name |-> None, state |-> None,
     started_at |-> None, penalty_secs |-> 0, hint_used_indices |-> << >>,
     awaiting_next |-> FALSE, awaiting_photo_for |-> None,
     photo_awarded_for |-> {}, exp_sent_for |-> {},
     time_accum |-> 0, time_segment_started |-> None]

\* the dict the START command stores
RestartSession ==
    [index |-> 0, score |-> 0, team_name |-> None,
     state |-> Some("awaiting_team_name"), started_at |-> None]

\* the keys ensure_session sets a default for, with the defaults
SessionDefaults ==
    [penalty_secs |-> 0, hint_used_indices |-> << >>, awaiting_next |-> FALSE,
     awaiting_photo_for |-> None, photo_awarded_for |-> {}, exp_sent_for |-> {},
     time_accum |-> 0, time_segment_started |-> None]

\* the setdefault calls of ensure_session on a stored dict
Backfill(sess) ==
    IF DOMAIN SessionDefaults \subseteq DOMAIN sess THEN sess
    ELSE [k \in DOMAIN sess \cup DOMAIN SessionDefaults |->
             IF k \in DOMAIN sess THEN sess[k] ELSE SessionDefaults[k]]

-----------------------------------------------------------------------------
(* Events, handler frames and the machine state                            *)

\* an inbound update: a button tap (callback_query), a text message or a
\* photo message
CallbackData ==
    {"READY", "Start Timer", PHOTO_BUTTON_DATA, NEXT_BUTTON_DATA,
     HINT_BUTTON_DATA, "B", "D"}

Texts == {"/start", "Ready", "Start Timer", "hint", "next", " B ", ""}

Events ==
    [kind : {"callback"}, data : CallbackData]
        \cup [kind : {"text"}, data : Texts]
        \cup [kind : {"photo"}, data : {"file_id"}]

NoEvent == [kind |-> "none", data |-> ""]

\* what a handler has emitted so far: whether an exception left it, the
\* calls of notify_admins_photo, the admin notifications that were lost, the
\* summary it sent, and the qid of the question it presented, scored,
\* charged a hint for, delivered a hint of, awarded a photo point for, and
\* whether it has answered a Hint signal that there is no hint to give
NoOut ==
    [raised |-> FALSE, notified |-> 0, lost |-> 0, summary |-> None, presented |-> None,
     scored |-> None, charged |-> None, hint_sent |-> None, awarded |-> None,
     no_hint |-> FALSE]

\* the frame of a handler: its place (pc), its update, its local variables
\* sess (the id of the dict it holds), idx and the loop index i, the summary
\* finalize_quiz has composed, and the network it meets: the number of
\* raising sends that succeed before one raises, whether image sends
\* succeed, whether the posts to the admin chats succeed
IdleFrame ==
    [pc |-> "idle", chat |-> 0, ev |-> NoEvent, sess |-> None, idx |-> 0,
     i |-> 0, summary |-> None, budget |-> None, img_ok |-> TRUE,
     admin_ok |-> TRUE, out |-> NoOut]

WithFr(m, t, f) == [m EXCEPT !.th[t] = f]

WithSess(m, id, d) == [m EXCEPT !.heap = Put(m.heap, id, d)]

Goto(m, t, label) == [m EXCEPT !.th[t].pc = label]

\* the handler returns: its locals die, what it has emitted stays visible
Return(m, t) == WithFr(m, t, [IdleFrame EXCEPT !.out = m.th[t].out])

\* an exception leaves the handler
Raise(m, t) == Return([m EXCEPT !.th[t].out.raised = TRUE], t)

\* the ids of the dicts some handler holds
Held(m) == {m.th[t].sess[1] : t \in {u \in Threads : m.th[u].sess # None}}

\* the id of a new dict for chat
Alloc(m, chat) ==
    <<chat, CHOOSE k \in 0..Cardinality(Threads) :
                /\ <<chat, k>> \notin Held(m)
                /\ \A j \in 0..(k - 1) : <<chat, j>> \in Held(m)>>

\* the dicts nothing refers to any more are dropped
Live(m) == Held(m) \cup {m.sessions[c] : c \in DOMAIN m.sessions}

Collect(m) ==
    IF DOMAIN m.heap = Live(m) THEN m
    ELSE [m EXCEPT !.heap = [id \in Live(m) |-> m.heap[id]]]

\* ensure_session: the machine after the call; the dict is sessions[chat]
ensure_session(m, chat) ==
    IF chat \in DOMAIN m.sessions
    THEN WithSess(m, m.sessions[chat], Backfill(m.heap[m.sessions[chat]]))
    ELSE [WithSess(m, Alloc(m, chat), NewSession)
             EXCEPT !.sessions = Put(m.sessions, chat, Alloc(m, chat))]

-----------------------------------------------------------------------------
(* The functions the webhook calls.  Each takes the machine m and the      *)
(* thread t that runs it and returns the machine at the next blocking      *)
(* call of t, or at the handler's end.                                      *)

\* every handler taking the record of chat 1
Chat_of_first(m, t) == 1

\* chat_id: the chat of the update thread t serves
Chat(m, t) == m.th[t].chat

\* sess = ensure_session(chat_id): the session is ensured and the frame
\* holds the stored dict
Hold(m, t) == [m EXCEPT !.th[t].sess = Some(m.sessions[Chat(m, t)])]

Ensured(m, t) == Hold(ensure_session(m, Chat(m, t)), t)

\* the dict the frame holds, and the machine after a write to it
Local(m, t) == m.heap[m.th[t].sess[1]]

WithLocal(m, t, d) == WithSess(m, m.th[t].sess[1], d)

Active == get_active_questions(QUESTIONS)

\* requests.post to an admin chat: it goes through or it raises
admin_post(fr) == IF fr.admin_ok THEN "sent" ELSE "raised"

\* a notification whose exception is left to the caller
notify_admins_unguarded(fr) == admin_post(fr) = "sent"

\* notify_admins, notify_admins_photo: whether the caller goes on after the
\* post; except Exception passes over a post that raises
notify_admins(fr) == admin_post(fr) \in {"sent", "raised"}

\* the machine after the post to the admins
AdminPosted(m, t) ==
    IF admin_post(m.th[t]) = "sent" THEN m
    ELSE [m EXCEPT !.th[t].out.lost = @ + 1]

\* _fmt_dur: whole minutes and the seconds left
fmt_dur(sec) == <<Max(0, sec) \div 60, Max(0, sec) % 60>>

\* the finish message with the penalty merged into the time line
finish_message_merged(sess, t) ==
    [team |-> IF Get(sess, "team_name", None) \in {None, Some("")}
              THEN "Adventurers" ELSE sess.team_name[1],
     score |-> Get(sess, "score", 0),
     total |-> Len(Active),
     time |-> fmt_dur(timer_elapsed(sess, t) + Get(sess, "penalty_secs", 0)),
     penalties |-> None,
     total_time |-> None,
     hints_used |-> None]

\* the finish message finalize_quiz composes from dict sess at clock t
finish_message(sess, t) ==
    [team |-> IF Get(sess, "team_name", None) \in {None, Some("")}
              THEN "Adventurers" ELSE sess.team_name[1],
     score |-> Get(sess, "score", 0),
     total |-> Len(Active),
     time |-> fmt_dur(timer_elapsed(sess, t)),
     penalties |-> IF Get(sess, "penalty_secs", 0) > 0
                   THEN Some(fmt_dur(Get(sess, "penalty_secs", 0))) ELSE None,
     total_time |-> IF Get(sess, "penalty_secs", 0) > 0
                    THEN Some(fmt_dur(timer_elapsed(sess, t) + Get(sess, "penalty_secs", 0)))
                    ELSE None,
     hints_used |-> IF Len(Get(sess, "hint_used_indices", << >>)) > 0
                    THEN Some(<<Len(Get(sess, "hint_used_indices", << >>)),
                                fmt_dur(Get(sess, "penalty_secs", 0))>>)
                    ELSE None]

\* finalize_quiz up to its send_message: the summary is composed
finalize_compose(m, t) ==
    WithFr(m, t, [m.th[t] EXCEPT !.pc = "fin_send",
                                 !.summary = Some(finish_message(Local(m, t), m.now))])

finalize_quiz(m, t) == finalize_compose(Ensured(m, t), t)

\* the reset of finalize_quiz without its penalty and hint lines
reset_session_keeping_penalty(sess) ==
    [sess EXCEPT !.index = 0, !.score = 0, !.started_at = None,
                 !.awaiting_next = FALSE, !.awaiting_photo_for = None,
                 !.photo_awarded_for = {}, !.exp_sent_for = {},
                 !.time_accum = 0, !.time_segment_started = None]

\* a reset that forgets the team name as well
reset_session_and_team(sess) ==
    [sess EXCEPT !.index = 0, !.score = 0, !.started_at = None,
                 !.awaiting_next = FALSE, !.awaiting_photo_for = None,
                 !.photo_awarded_for = {}, !.exp_sent_for = {},
                 !.penalty_secs = 0, !.hint_used_indices = << >>,
                 !.time_accum = 0, !.time_segment_started = None,
                 !.team_name = None]

\* the reset at the end of finalize_quiz
reset_session(sess) ==
    [sess EXCEPT !.index = 0, !.score = 0, !.started_at = None,
                 !.awaiting_next = FALSE, !.awaiting_photo_for = None,
                 !.photo_awarded_for = {}, !.exp_sent_for = {},
                 !.penalty_secs = 0, !.hint_used_indices = << >>,
                 !.time_accum = 0, !.time_segment_started = None]

\* finalize_quiz after its send_message: the admins are notified and the
\* dict is reset
finalize_reset(m, t) ==
    IF notify_admins(m.th[t])
    THEN Return([WithLocal(AdminPosted(m, t), t, reset_session(Local(m, t)))
                    EXCEPT !.th[t].out.summary = m.th[t].summary], t)
    ELSE Raise(AdminPosted(m, t), t)

\* present_question from the index on: finish, or send the question
present_route(m, t) ==
    IF Local(m, t).index >= Len(Active)
    THEN finalize_quiz(m, t)
    ELSE WithFr(m, t, [m.th[t] EXCEPT !.pc = "pq_send", !.idx = Local(m, t).index])

\* present_question once it has its dict: Next is no longer awaited and the
\* timer runs
present_resume(m, t) ==
    present_route(WithLocal(m, t,
        timer_resume([Local(m, t) EXCEPT !.awaiting_next = FALSE,
                                         !.awaiting_photo_for = None], m.now)), t)

present_question(m, t) == present_resume(Ensured(m, t), t)

\* a send_message that ends the handler
SendFinal(m, t) == Goto(m, t, "send_final")

\* present_question after its send_message: a photo task sends a second one
present_sent(m, t) ==
    IF Active[m.th[t].idx + 1].expect_photo
    THEN SendFinal([m EXCEPT !.th[t].out.presented = Some(Active[m.th[t].idx + 1].qid)], t)
    ELSE Return([m EXCEPT !.th[t].out.presented = Some(Active[m.th[t].idx + 1].qid)], t)

\* the end of handle_answer without its timer_pause
next_or_finalize_unpaused(m, t) ==
    IF m.th[t].idx + 1 >= Len(Active)
    THEN finalize_quiz(WithLocal(m, t, [Local(m, t) EXCEPT !.awaiting_next = FALSE]), t)
    ELSE SendFinal(WithLocal(m, t, [Local(m, t) EXCEPT !.awaiting_next = TRUE]), t)

\* the end of handle_answer and of the photo branch: finish on the last
\* question, otherwise require Next and pause the timer
next_or_finalize(m, t) ==
    IF m.th[t].idx + 1 >= Len(Active)
    THEN finalize_quiz(WithLocal(m, t, [Local(m, t) EXCEPT !.awaiting_next = FALSE]), t)
    ELSE SendFinal(WithLocal(m, t,
             timer_pause([Local(m, t) EXCEPT !.awaiting_next = TRUE], m.now)), t)

\* the explanation texts of the question at idx
explanation_texts(m, t) == to_list(Active[m.th[t].idx + 1].explanations)

\* the explanation loop, entered with i texts sent
explain(m, t) ==
    IF m.th[t].i < Len(explanation_texts(m, t))
    THEN Goto(m, t, "exp_send")
    ELSE next_or_finalize(m, t)

\* handle_answer scoring without its is_correct test
judge_any_answer(m, t, selected) ==
    [WithLocal(m, t, [Local(m, t) EXCEPT !.score = @ + 1])
        EXCEPT !.th[t].out.scored = Some(Active[m.th[t].idx + 1].qid),
               !.th[t].pc = "fb_send"]

\* handle_answer on a choice question: the score and the feedback
judge(m, t, selected) ==
    IF selected = Active[m.th[t].idx + 1].answer
    THEN [WithLocal(m, t, [Local(m, t) EXCEPT !.score = @ + 1])
             EXCEPT !.th[t].out.scored = Some(Active[m.th[t].idx + 1].qid),
                    !.th[t].pc = "fb_send"]
    ELSE Goto(m, t, "fb_send")

\* handle_answer once it has its dict, up to its first send_message
handle_answer_body(m, t, selected) ==
    IF Local(m, t).index >= Len(Active) THEN finalize_quiz(m, t)
    ELSE IF Active[Local(m, t).index + 1].expect_photo THEN SendFinal(m, t)
    ELSE judge([m EXCEPT !.th[t].idx = Local(m, t).index, !.th[t].i = 0], t, selected)

handle_answer(m, t, selected) == handle_answer_body(Ensured(m, t), t, selected)

\* the hint text of question q as the catalog has it
hint_text_unstripped(q) == IF q.hint = None THEN "" ELSE q.hint[1]

\* the stripped hint text and hint image of question q
hint_text(q) == Strip(IF q.hint = None THEN "" ELSE q.hint[1])

hint_image(q) == Strip(IF q.hint_image = None THEN "" ELSE q.hint_image[1])

\* _use_hint_and_reprompt charging without its first_time test
hint_charge_every_time(m, t) ==
    [WithLocal(m, t,
         [Local(m, t) EXCEPT
             !.penalty_secs = Get(Local(m, t), "penalty_secs", 0) + HINT_PENALTY_SECS,
             !.hint_used_indices =
                 Append(Get(Local(m, t), "hint_used_indices", << >>), m.th[t].idx)])
        EXCEPT !.th[t].out.charged = Some(Active[m.th[t].idx + 1].qid)]

\* _use_hint_and_reprompt: the penalty, once per index
hint_charge(m, t) ==
    IF ~InList(m.th[t].idx, Get(Local(m, t), "hint_used_indices", << >>))
    THEN [WithLocal(m, t,
              [Local(m, t) EXCEPT
                  !.penalty_secs = Get(Local(m, t), "penalty_secs", 0) + HINT_PENALTY_SECS,
                  !.hint_used_indices =
                      Append(Get(Local(m, t), "hint_used_indices", << >>), m.th[t].idx)])
             EXCEPT !.th[t].out.charged = Some(Active[m.th[t].idx + 1].qid)]
    ELSE m

\* _use_hint_and_reprompt: the image if there is one, otherwise the text
hint_deliver(m, t) ==
    IF hint_image(Active[m.th[t].idx + 1]) # ""
    THEN IF m.th[t].img_ok
         THEN Return([m EXCEPT !.th[t].out.hint_sent = Some(Active[m.th[t].idx + 1].qid)], t)
         ELSE IF hint_text(Active[m.th[t].idx + 1]) # ""
              THEN Goto(m, t, "hint_send")
              ELSE Return(m, t)
    ELSE Goto(m, t, "hint_send")

\* _use_hint_and_reprompt once it has its dict
use_hint_body(m, t) ==
    IF Get(Local(m, t), "index", 0) >= Len(Active)
    THEN SendFinal([m EXCEPT !.th[t].out.no_hint = TRUE], t)
    ELSE IF /\ hint_text(Active[Get(Local(m, t), "index", 0) + 1]) = ""
            /\ hint_image(Active[Get(Local(m, t), "index", 0) + 1]) = ""
    THEN SendFinal([m EXCEPT !.th[t].out.no_hint = TRUE], t)
    ELSE hint_deliver(hint_charge([m EXCEPT !.th[t].idx = Get(Local(m, t), "index", 0)], t), t)

use_hint_and_reprompt(m, t) == use_hint_body(Ensured(m, t), t)

\* the hint followed by the question presented again
hint_sent_reprompting(m, t) ==
    present_question([m EXCEPT !.th[t].out.hint_sent = Some(Active[m.th[t].idx + 1].qid)], t)

\* _use_hint_and_reprompt after its send_message
hint_sent(m, t) ==
    Return([m EXCEPT !.th[t].out.hint_sent = Some(Active[m.th[t].idx + 1].qid)], t)

\* the READY gate, by button or typed: up to the send of the themes message
ready_body(m, t) ==
    Goto(WithLocal(m, t, [Local(m, t) EXCEPT !.state = None, !.index = 0]), t,
         "themes_send")

ready_pressed(m, t) == ready_body(Ensured(m, t), t)

\* after the themes message: wait for Start Timer, send its button
themes_sent(m, t) ==
    SendFinal(WithLocal(m, t, [Local(m, t) EXCEPT !.state = Some("awaiting_timer")]), t)

\* the START TIMER callback
start_timer_body(m, t) ==
    present_question(WithLocal(m, t,
        [Local(m, t) EXCEPT !.started_at = Some(m.now), !.time_accum = 0,
                            !.time_segment_started = None, !.state = None]), t)

start_timer_pressed(m, t) == start_timer_body(Ensured(m, t), t)

\* START TIMER typed while awaiting_timer
start_timer_typed(m, t) ==
    present_question(WithLocal(m, t,
        [Local(m, t) EXCEPT !.started_at = Some(m.now), !.state = None]), t)

\* the Upload Photo button
photo_intent_body(m, t) ==
    IF /\ Get(Local(m, t), "index", 0) < Len(Active)
       /\ Active[Get(Local(m, t), "index", 0) + 1].expect_photo
    THEN SendFinal(WithLocal(m, t,
             [Local(m, t) EXCEPT !.awaiting_photo_for = Some(Get(Local(m, t), "index", 0))]), t)
    ELSE SendFinal(m, t)

photo_pressed(m, t) == photo_intent_body(Ensured(m, t), t)

\* Next once the index is incremented: the pacing sleep, or finalize_quiz
\* after the last question
advance_route(m, t) ==
    IF Local(m, t).index < Len(Active) THEN Goto(m, t, "sleep") ELSE finalize_quiz(m, t)

\* Next leaving the index where it is
advance_in_place(m, t) ==
    advance_route(WithLocal(m, t, [Local(m, t) EXCEPT !.awaiting_next = FALSE]), t)

\* Next, by button or typed, once awaiting_next is seen true
advance(m, t) ==
    advance_route(WithLocal(m, t, [Local(m, t) EXCEPT !.awaiting_next = FALSE,
                                                      !.index = @ + 1]), t)

\* the NEXT callback
next_body(m, t) ==
    IF ~Local(m, t).awaiting_next THEN Return(m, t) ELSE advance(m, t)

next_pressed(m, t) == next_body(Ensured(m, t), t)

\* a callback that is none of the special actions: an answer
answer_body(m, t) ==
    IF Local(m, t).awaiting_next
    THEN SendFinal(m, t)
    ELSE handle_answer(m, t, m.th[t].ev.data)

answer_pressed(m, t) == answer_body(Ensured(m, t), t)

\* the photo branch awarding without its photo_awarded_for test
photo_award_every_time(m, t) ==
    [WithLocal(m, t, [Local(m, t) EXCEPT !.photo_awarded_for = @ \cup {m.th[t].idx},
                                         !.score = @ + 1])
        EXCEPT !.th[t].out.awarded = Some(Active[m.th[t].idx + 1].qid)]

\* the photo branch: the point, once per index
photo_award(m, t) ==
    IF m.th[t].idx \notin Local(m, t).photo_awarded_for
    THEN [WithLocal(m, t, [Local(m, t) EXCEPT !.photo_awarded_for = @ \cup {m.th[t].idx},
                                              !.score = @ + 1])
             EXCEPT !.th[t].out.awarded = Some(Active[m.th[t].idx + 1].qid)]
    ELSE m

\* the photo branch after the post to the admins, up to its feedback send
photo_forwarded(m, t) ==
    IF notify_admins(m.th[t])
    THEN photo_award([AdminPosted(m, t)
                         EXCEPT !.th[t].pc = "ph_send",
                                !.th[t].out.notified = @ + 1], t)
    ELSE Raise(AdminPosted(m, t), t)

\* a photo message once it has its dict, up to the post to the admins
photo_body(m, t) ==
    IF /\ Get(Local(m, t), "index", 0) < Len(Active)
       /\ Active[Get(Local(m, t), "index", 0) + 1].expect_photo
    THEN [m EXCEPT !.th[t].pc = "ph_notify",
                   !.th[t].idx = Get(Local(m, t), "index", 0),
                   !.th[t].i = 0]
    ELSE SendFinal(m, t)

photo_upload(m, t) == photo_body(Ensured(m, t), t)

\* the photo branch after its feedback send
photo_received(m, t) ==
    IF m.th[t].idx \notin Local(m, t).exp_sent_for
    THEN explain(WithLocal(m, t, [Local(m, t) EXCEPT !.exp_sent_for = @ \cup {m.th[t].idx}]), t)
    ELSE next_or_finalize(m, t)

\* the START command writing its five keys into the stored dict instead of
\* replacing it
restart_in_place(m, t) ==
    SendFinal(WithLocal(Ensured(m, t), t,
        [Local(Ensured(m, t), t) EXCEPT !.index = 0, !.score = 0, !.team_name = None,
                                        !.state = Some("awaiting_team_name"),
                                        !.started_at = None]), t)

\* the START command: a new dict replaces the stored one
restart(m, t) ==
    SendFinal([WithSess(m, Alloc(m, Chat(m, t)), RestartSession)
                  EXCEPT !.sessions = Put(m.sessions, Chat(m, t), Alloc(m, Chat(m, t)))], t)

\* the typed fallback: text is taken as an answer to the question at index
typed_answer(m, t, text) ==
    IF Local(m, t).index < Len(Active)
    THEN IF Local(m, t).awaiting_next THEN SendFinal(m, t)
         ELSE IF Active[Local(m, t).index + 1].expect_photo THEN SendFinal(m, t)
         ELSE IF InList(text, Active[Local(m, t).index + 1].options)
         THEN handle_answer(m, t, text)
         ELSE Goto(m, t, "tap_send")
    ELSE SendFinal(m, t)

\* a text message that is not the START command, once it has its dict
text_body(m, t, text) ==
    IF Get(Local(m, t), "state", None) = Some("awaiting_team_name") /\ text # ""
    THEN Goto(WithLocal(m, t, [Local(m, t) EXCEPT !.team_name = Some(text),
                                                  !.state = Some("awaiting_ready")]),
              t, "intro_send")
    ELSE IF Get(Local(m, t), "state", None) = Some("awaiting_ready")
    THEN IF Upper(text) = "READY" THEN ready_body(m, t) ELSE SendFinal(m, t)
    ELSE IF Upper(text) = "HINT" THEN use_hint_and_reprompt(m, t)
    ELSE IF /\ Local(m, t).awaiting_next
            /\ Upper(text) \in {"NEXT", "NEXT QUESTION", "NEXT_QUESTION"}
    THEN advance(m, t)
    ELSE IF /\ Get(Local(m, t), "state", None) = Some("awaiting_timer")
            /\ Upper(text) \in {"START TIMER", "START_TIMER"}
    THEN start_timer_typed(m, t)
    ELSE IF text # "" THEN typed_answer(m, t, text)
    ELSE Return(m, t)

\* a text message: text is the stripped text
text_message(m, t, text) ==
    IF Upper(text) \in {"/START", "START"}
    THEN restart(m, t)
    ELSE text_body(Ensured(m, t), t, text)

\* a button tap
callback_query(m, t, data) ==
    IF Upper(data) = "READY" THEN ready_pressed(m, t)
    ELSE IF Upper(data) \in {"START TIMER", "START_TIMER"} THEN start_timer_pressed(m, t)
    ELSE IF data = PHOTO_BUTTON_DATA THEN photo_pressed(m, t)
    ELSE IF data = NEXT_BUTTON_DATA THEN next_pressed(m, t)
    ELSE IF data = HINT_BUTTON_DATA THEN use_hint_and_reprompt(m, t)
    ELSE answer_pressed(m, t)

\* telegram_webhook, from the update to the first blocking call
telegram_webhook(m, t) ==
    IF m.th[t].ev.kind = "callback" THEN callback_query(m, t, m.th[t].ev.data)
    ELSE IF m.th[t].ev.kind = "photo" THEN photo_upload(m, t)
    ELSE text_message(m, t, Strip(m.th[t].ev.data))

\* send_message: it raises when the network fails it
CanSend(fr) == fr.budget = None \/ fr.budget[1] > 0

Sent(m, t) ==
    IF m.th[t].budget = None THEN m
    ELSE [m EXCEPT !.th[t].budget = Some(m.th[t].budget[1] - 1)]

\* what follows the blocking call at the frame's pc
Continue(m, t) ==
    CASE m.th[t].pc = "send_final" -> Return(m, t)
      [] m.th[t].pc = "fin_send" -> finalize_reset(m, t)
      [] m.th[t].pc = "pq_send" -> present_sent(m, t)
      [] m.th[t].pc = "fb_send" -> explain(m, t)
      [] m.th[t].pc = "exp_send" -> explain([m EXCEPT !.th[t].i = @ + 1], t)
      [] m.th[t].pc = "hint_send" -> hint_sent(m, t)
      [] m.th[t].pc = "ph_send" -> photo_received(m, t)
      [] m.th[t].pc = "themes_send" -> themes_sent(m, t)
      [] m.th[t].pc = "intro_send" -> SendFinal(m, t)
      [] m.th[t].pc = "tap_send" -> present_question(m, t)

\* one segment of thread t: from a blocking call to the next
Step(m, t) ==
    Collect(CASE m.th[t].pc = "start" -> telegram_webhook(m, t)
              [] m.th[t].pc = "sleep" -> present_question(m, t)
              [] m.th[t].pc = "ph_notify" -> photo_forwarded(m, t)
              [] OTHER -> IF CanSend(m.th[t])
                          THEN Continue(Sent(m, t), t)
                          ELSE Raise(m, t))

\* the handler of thread t run to its end
RECURSIVE Run(_, _)
Run(m, t) == IF m.th[t].pc = "idle" THEN m ELSE Run(Step(m, t), t)

\* thread t takes the update ev of chat
Begin(m, t, chat, ev, budget, img_ok) ==
    WithFr(m, t, [IdleFrame EXCEPT !.pc = "start", !.chat = chat, !.ev = ev,
                                   !.budget = budget, !.img_ok = img_ok])

-----------------------------------------------------------------------------
(* The specification of the webhook serving one update at a time           *)

Machine == [sessions |-> sessions, heap |-> heap, now |-> now, th |-> threads]

Install(m) ==
    /\ sessions' = m.sessions
    /\ heap' = m.heap
    /\ threads' = m.th
    /\ UNCHANGED <<QUESTIONS, now>>

Idle == \A t \in Threads : threads[t].pc = "idle"

ScoreOk(m) == \A id \in DOMAIN m.heap : m.heap[id].score <= MaxScore

\* what the transport is doing with an update it delivers more than once:
\* nothing ("none"); it has delivered ev and got an error ("failed") and has
\* delivered it again ("redelivered"); one thread is serving ev ("one") and a
\* second thread has taken the same update ("two").  want is the outcome a
\* single successful delivery of ev has from the state the first delivery
\* started in.
NoDelivery == [phase |-> "none", chat |-> 0, ev |-> NoEvent, want |-> << >>]

\* score, accumulated penalty and position of chat c in machine m
Outcome(m, c) ==
    <<Backfill(m.heap[m.sessions[c]]).score,
      Backfill(m.heap[m.sessions[c]]).penalty_secs,
      Backfill(m.heap[m.sessions[c]]).index>>

Init ==
    /\ QUESTIONS \in {qs \in Catalogs : load_questions(qs)}
    /\ sessions = << >>
    /\ heap = << >>
    /\ now = 0
    /\ threads = [t \in Threads |-> IdleFrame]
    /\ delivery = NoDelivery

\* the machine after the webhook has served update ev of chat c, no send
\* failing
Served(c, ev) == Run(Begin(Machine, 1, c, ev, None, TRUE), 1)

\* the webhook serves update ev of chat c
Accept(m) == ScoreOk(m) /\ Install(m)

Deliver(c, ev) ==
    /\ delivery.phase # "failed"
    /\ Accept(Served(c, ev))
    /\ delivery' = NoDelivery

Button(data) == [kind |-> "callback", data |-> data]

Text(text) == [kind |-> "text", data |-> text]

Photo == [kind |-> "photo", data |-> "file_id"]

\* the READY button
ReadyButton(c) == Idle /\ Deliver(c, Button("READY"))

\* the Start Timer button
StartTimerButton(c) == Idle /\ Deliver(c, Button("Start Timer"))

\* the Upload Photo button
PhotoButton(c) == Idle /\ Deliver(c, Button(PHOTO_BUTTON_DATA))

\* the Next Question button
NextButton(c) == Idle /\ Deliver(c, Button(NEXT_BUTTON_DATA))

\* the Hint button
HintButton(c) == Idle /\ Deliver(c, Button(HINT_BUTTON_DATA))

\* an option button
OptionButton(c, data) == Idle /\ Deliver(c, Button(data))

\* the START command
StartCommand(c) == Idle /\ Deliver(c, Text("/start"))

\* any other text message
TextMessage(c, text) == Idle /\ Deliver(c, Text(text))

\* a photo message
PhotoMessage(c) == Idle /\ Deliver(c, Photo)

\* time.time() advances
Tick ==
    /\ now < MaxTime
    /\ now' = now + 1
    /\ UNCHANGED <<QUESTIONS, sessions, heap, threads, delivery>>

Options == CallbackData \ {"READY", "Start Timer", PHOTO_BUTTON_DATA,
                           NEXT_BUTTON_DATA, HINT_BUTTON_DATA}

Next ==
    \/ Tick
    \/ \E c \in Chats : ReadyButton(c)
    \/ \E c \in Chats : StartTimerButton(c)
    \/ \E c \in Chats : PhotoButton(c)
    \/ \E c \in Chats : NextButton(c)
    \/ \E c \in Chats : HintButton(c)
    \/ \E c \in Chats, data \in Options : OptionButton(c, data)
    \/ \E c \in Chats : StartCommand(c)
    \/ \E c \in Chats, text \in Texts \ {"/start"} : TextMessage(c, text)
    \/ \E c \in Chats : PhotoMessage(c)

Spec == Init /\ [][Next]_vars

-----------------------------------------------------------------------------
(* The webhook with sends that fail: send_message raises, the exception     *)
(* leaves telegram_webhook, the transport gets an error and delivers the    *)
(* update again                                                              *)

\* the sends of send_message a handler gets through before one raises
MaxSent == 2

\* the machine after the webhook has served update ev of chat c and the
\* send after k successful ones has raised
Failed(c, ev, k) == Run(Begin(Machine, 1, c, ev, Some(k), TRUE), 1)

NoteFailure(m, c, ev) ==
    /\ m.th[1].out.raised
    /\ Accept(m)
    /\ delivery' = [phase |-> "failed", chat |-> c, ev |-> ev,
                    want |-> Outcome(Served(c, ev), c)]

\* an update is served and a send of its handler raises
FailedDelivery(c, ev, k) ==
    /\ Idle
    /\ delivery.phase # "failed"
    /\ NoteFailure(Failed(c, ev, k), c, ev)

\* the transport delivers the update again, and no send fails
Redelivery ==
    /\ Idle
    /\ delivery.phase = "failed"
    /\ Accept(Served(delivery.chat, delivery.ev))
    /\ delivery' = [delivery EXCEPT !.phase = "redelivered"]

NextFail ==
    \/ \E c \in Chats : ReadyButton(c)
    \/ \E c \in Chats : StartTimerButton(c)
    \/ \E c \in Chats : PhotoButton(c)
    \/ \E c \in Chats : NextButton(c)
    \/ \E c \in Chats : HintButton(c)
    \/ \E c \in Chats, data \in Options : OptionButton(c, data)
    \/ \E c \in Chats : StartCommand(c)
    \/ \E c \in Chats, text \in Texts \ {"/start"} : TextMessage(c, text)
    \/ \E c \in Chats : PhotoMessage(c)
    \/ \E c \in Chats, ev \in Events, k \in 0..MaxSent : FailedDelivery(c, ev, k)
    \/ Redelivery

SpecFail == Init /\ [][NextFail]_vars

-----------------------------------------------------------------------------
(* The webhook served by two threads: app.run serves every request in a     *)
(* thread of its own and the handlers take no lock, so a second handler     *)
(* runs while the first is at a blocking call                                *)

\* the updates the transport delivers while another is being served
ConcEvents ==
    {Button("B"), Button(HINT_BUTTON_DATA), Button(NEXT_BUTTON_DATA), Photo}

\* thread 1 takes update ev of chat c while no handler runs
Arrival(c, ev) ==
    /\ Idle
    /\ Install(Begin(Machine, 1, c, ev, None, TRUE))
    /\ delivery' = [phase |-> "one", chat |-> c, ev |-> ev,
                    want |-> Outcome(Served(c, ev), c)]

\* thread 2 takes the same update again while thread 1 is serving it
Duplicate ==
    /\ delivery.phase = "one"
    /\ threads[1].pc # "idle"
    /\ threads[2].pc = "idle"
    /\ Install(Begin(Machine, 2, delivery.chat, delivery.ev, None, TRUE))
    /\ delivery' = [delivery EXCEPT !.phase = "two"]

\* thread t runs from its blocking call to the next one
Proceed(t) ==
    /\ threads[t].pc # "idle"
    /\ Accept(Step(Machine, t))
    /\ UNCHANGED delivery

NextConc ==
    \/ \E c \in Chats, ev \in ConcEvents : Arrival(c, ev)
    \/ Duplicate
    \/ \E t \in Threads : Proceed(t)

SpecConc == Init /\ [][NextConc]_vars

-----------------------------------------------------------------------------
(* The webhook served by two threads that take different updates of one     *)
(* chat: the second update arrives while the handler of the first is at a   *)
(* blocking call                                                             *)

\* the updates that arrive while no handler runs
RaceEvents == ConcEvents \cup {Button("Start Timer"), Text("/start")}

\* the updates that arrive while another is being served
LateEvents == ConcEvents \cup {Text("/start")}

\* a catalog of three visible choice questions
Trail == WithIds(<<QChoiceB(None, None), QChoiceB(None, None), QChoiceB(None, None)>>)

RaceCatalogs == Catalogs \cup {Trail}

InitRace ==
    /\ QUESTIONS \in {qs \in RaceCatalogs : load_questions(qs)}
    /\ sessions = << >>
    /\ heap = << >>
    /\ now = 0
    /\ threads = [t \in Threads |-> IdleFrame]
    /\ delivery = NoDelivery

\* thread 2 takes update ev of chat c while thread 1 is serving another: in
\* its pacing sleep ("delayed") or at another blocking call ("raced")
Overtake(c, ev) ==
    /\ delivery.phase = "one"
    /\ delivery.chat = c
    /\ threads[1].pc # "idle"
    /\ threads[2].pc = "idle"
    /\ Install(Begin(Machine, 2, c, ev, None, TRUE))
    /\ delivery' = [delivery EXCEPT
                       !.phase = IF threads[1].pc = "sleep" THEN "delayed" ELSE "raced"]

\* the qid a handler has given a point for, if any
Credited(out) == IF out.scored # None THEN out.scored ELSE out.awarded

\* both handlers of a "delayed" pair have ended and the next update of the
\* chat is served; want keeps the qid the overtaking handler gave a point for
Afterwards(c, ev) ==
    /\ Idle
    /\ delivery.phase = "delayed"
    /\ delivery.chat = c
    /\ Accept(Served(c, ev))
    /\ delivery' = [delivery EXCEPT !.phase = "after",
                                    !.want = Credited(threads[2].out)]

NextRace ==
    \/ \E c \in Chats, ev \in RaceEvents : Arrival(c, ev)
    \/ \E c \in Chats, ev \in LateEvents : Overtake(c, ev)
    \/ \E t \in Threads : Proceed(t)
    \/ \E c \in Chats, ev \in ConcEvents : Afterwards(c, ev)

SpecRace == InitRace /\ [][NextRace]_vars

-----------------------------------------------------------------------------
(* The webhook serving the updates of two chats, one update at a time       *)

Pair == {1, 2}

\* the updates of the two chats
PairEvents ==
    {Text("/start"), Button("B"), Button(NEXT_BUTTON_DATA),
     Button(HINT_BUTTON_DATA), Photo}

\* the webhook serves update ev of chat c
Serve(c, ev) == Idle /\ Deliver(c, ev)

NextPair == \E c \in Pair, ev \in PairEvents : Serve(c, ev)

SpecPair == Init /\ [][NextPair]_vars

-----------------------------------------------------------------------------
(* The webhook with posts to the admin chats that fail                      *)

\* the machine after the webhook has served update ev of chat c while the
\* posts to the admin chats raise
Unnotifying(c, ev) ==
    Run([Begin(Machine, 1, c, ev, None, TRUE) EXCEPT !.th[1].admin_ok = FALSE], 1)

LostNotification(m) == m.th[1].out.lost > 0 /\ Accept(m)

\* an update is served and the notifications of its handler are lost
Unnotified(c, ev) ==
    /\ Idle
    /\ delivery.phase # "failed"
    /\ LostNotification(Unnotifying(c, ev))
    /\ delivery' = NoDelivery

NextAdmin ==
    \/ \E c \in Chats, ev \in Events : Serve(c, ev)
    \/ \E c \in Chats, ev \in Events : Unnotified(c, ev)

SpecAdmin == Init /\ [][NextAdmin]_vars

-----------------------------------------------------------------------------
(* The webhook with a participant who, from some point on, sends only the   *)
(* input the session asks for                                                *)

\* the input the record d asks for: the team name, READY, Start Timer, Next,
\* a photo or an option of the question at its index
Expected(d) ==
    IF d.state = Some("awaiting_team_name") THEN Text(" B ")
    ELSE IF d.state = Some("awaiting_ready") THEN Button("READY")
    ELSE IF d.state = Some("awaiting_timer") THEN Button("Start Timer")
    ELSE IF d.awaiting_next THEN Button(NEXT_BUTTON_DATA)
    ELSE IF d.index < Len(Active) /\ Active[d.index + 1].expect_photo THEN Photo
    ELSE Button("B")

\* the session dict of chat c as a handler gets it from ensure_session
SessOf(c) ==
    IF c \in DOMAIN sessions THEN Backfill(heap[sessions[c]]) ELSE NewSession

\* a run adds at most one point per question to the score it starts with
RunScoreOk(m) ==
    \A id \in DOMAIN m.heap : m.heap[id].score <= MaxScore + Len(Active)

\* the participant sends only what the session asks for, and has sent an
\* even or an odd number of inputs since
Cooperating == delivery.phase \in {"even", "odd"}

Turned(phase) == IF phase = "even" THEN "odd" ELSE "even"

\* from here on the participant sends only what the session asks for
Cooperate ==
    /\ Idle
    /\ delivery.phase = "none"
    /\ delivery' = [delivery EXCEPT !.phase = "even"]
    /\ threads' = [t \in Threads |-> IdleFrame]
    /\ UNCHANGED <<QUESTIONS, sessions, heap, now>>

\* the webhook serves the input the session of chat c asks for
ExpectedInput(c) ==
    /\ Idle
    /\ Cooperating
    /\ RunScoreOk(Served(c, Expected(SessOf(c))))
    /\ Install(Served(c, Expected(SessOf(c))))
    /\ delivery' = [delivery EXCEPT !.phase = Turned(@)]

\* any other input, while the participant sends what they like
FreeInput(c, ev) == delivery.phase = "none" /\ Serve(c, ev)

NextLive ==
    \/ \E c \in Chats, ev \in Events : FreeInput(c, ev)
    \/ Cooperate
    \/ \E c \in Chats : ExpectedInput(c)

\* one more input of the cooperating participant is served
Turn == Cooperating /\ delivery'.phase = Turned(delivery.phase)

\* every input the cooperating participant sends is served in the end:
\* WF_vars(\E c \in Chats : ExpectedInput(c)), written out.  The Turn steps
\* of NextLive are the ExpectedInput steps, and ExpectedInput is enabled
\* exactly in the Cooperating states (Responsive below).
InputsServed == []<>(~Cooperating) \/ []<><<Turn>>_vars

SpecLive == Init /\ [][NextLive]_vars /\ InputsServed

-----------------------------------------------------------------------------
(* The timer functions applied to the dict of one chat, in any order, as    *)
(* the clock advances                                                        *)

\* the clock values of the timer specification
MaxClock == 4

\* the chat has a dict as ensure_session or the START command stores it
InitTimer ==
    /\ QUESTIONS \in {qs \in Catalogs : load_questions(qs)}
    /\ sessions = [c \in Chats |-> <<c, 0>>]
    /\ heap \in [{<<c, 0>> : c \in Chats} -> {NewSession, RestartSession}]
    /\ now = 0
    /\ threads = [t \in Threads |-> IdleFrame]
    /\ delivery = NoDelivery

\* timer_resume(sess)
Resume(c) ==
    /\ heap' = [heap EXCEPT ![sessions[c]] = timer_resume(@, now)]
    /\ UNCHANGED <<QUESTIONS, sessions, now, threads, delivery>>

\* timer_pause(sess)
Pause(c) ==
    /\ heap' = [heap EXCEPT ![sessions[c]] = timer_pause(@, now)]
    /\ UNCHANGED <<QUESTIONS, sessions, now, threads, delivery>>

\* time.time() advances
Clock ==
    /\ now < MaxClock
    /\ now' = now + 1
    /\ UNCHANGED <<QUESTIONS, sessions, heap, threads, delivery>>

NextTimer ==
    \/ \E c \in Chats : Resume(c)
    \/ \E c \in Chats : Pause(c)
    \/ Clock

SpecTimer == InitTimer /\ [][NextTimer]_vars

-----------------------------------------------------------------------------
(* What the claims speak of *)

\* total: the number of visible challenges
Total == Len(get_active_questions(QUESTIONS))

\* what the last handler has emitted
Out == threads[1].out

\* timer elapsed() of chat c at the current clock
Elapsed(c) == timer_elapsed(SessOf(c), now)

\* the positions of chat c a hint was charged for
HintCharged(c) ==
    {SessOf(c).hint_used_indices[i] : i \in 1..Len(SessOf(c).hint_used_indices)}

\* the Hint and the Advance signal, by button or typed
HintSignal(c) == HintButton(c) \/ TextMessage(c, "hint")

AdvanceSignal(c) == NextButton(c) \/ TextMessage(c, "next")

\* the position of chat c is a Photo challenge
AtPhotoPosition(c) ==
    /\ SessOf(c).index < Total
    /\ Active[SessOf(c).index + 1].expect_photo

\* a handler has run in this step and has sent the finish summary
Finalized == now' = now /\ Out'.summary # None

-----------------------------------------------------------------------------
(* Claims *)

\* C1: in every state reachable by input events processed one at a time,
\* every session has 0 <= score <= total and 0 <= position <= total.
C1_ScoreAndPositionWithinTotal ==
    \A c \in Chats :
        /\ 0 <= SessOf(c).score /\ SessOf(c).score <= Total
        /\ 0 <= SessOf(c).index /\ SessOf(c).index <= Total

\* the accumulated penalty is the quantum times the number of distinct
\* positions charged, and no position is charged twice
PenaltyIsQuantumPerPosition ==
    \A c \in Chats :
        /\ SessOf(c).penalty_secs = HINT_PENALTY_SECS * Cardinality(HintCharged(c))
        /\ Len(SessOf(c).hint_used_indices) = Cardinality(HintCharged(c))

\* a step that delivers a hint charges its position if it is not charged
\* yet; the charged positions change in no other step except by a reset;
\* the finish summary reports their number
HintStep(c) ==
    /\ HintSignal(c) /\ Out'.hint_sent # None
          => /\ HintCharged(c)' = HintCharged(c) \cup {SessOf(c).index}
             /\ SessOf(c)'.penalty_secs =
                    SessOf(c).penalty_secs
                        + (IF SessOf(c).index \in HintCharged(c)
                           THEN 0 ELSE HINT_PENALTY_SECS)
    /\ HintCharged(c)' # HintCharged(c)
          => \/ HintSignal(c) /\ Out'.hint_sent # None
             \/ HintCharged(c)' = {}
    /\ Finalized
          => Out'.summary[1].hints_used =
                 IF HintCharged(c) = {} THEN None
                 ELSE Some(<<Cardinality(HintCharged(c)),
                             fmt_dur(HINT_PENALTY_SECS * Cardinality(HintCharged(c)))>>)

PhotoStep(c) ==
    /\ PhotoMessage(c) /\ AtPhotoPosition(c)
          => /\ Out'.notified = 1
             /\ IF Out'.summary = None
                THEN /\ SessOf(c)'.score =
                            SessOf(c).score
                                + (IF SessOf(c).index \in SessOf(c).photo_awarded_for
                                   THEN 0 ELSE 1)
                     /\ SessOf(c)'.photo_awarded_for =
                            SessOf(c).photo_awarded_for \cup {SessOf(c).index}
                ELSE Out'.summary[1].score =
                            SessOf(c).score
                                + (IF SessOf(c).index \in SessOf(c).photo_awarded_for
                                   THEN 0 ELSE 1)
    /\ SessOf(c)'.photo_awarded_for # SessOf(c).photo_awarded_for
          => \/ PhotoMessage(c) /\ AtPhotoPosition(c)
             \/ SessOf(c)'.photo_awarded_for = {}

\* C3: of the photos submitted on one Photo position since the record was
\* last reset, the first adds 1 to the score and the others add nothing and
\* take nothing away, and every one of them is forwarded to the operators
\* once.
C3_PhotoScoresOnceNotifiesEach == [][\A c \in Chats : PhotoStep(c)]_vars

\* a photo was submitted again on an awarded position: forwarded, no point
C3_Witness ==
    /\ AtPhotoPosition(1)
    /\ SessOf(1).index \in SessOf(1).photo_awarded_for
    /\ SessOf(1).score = 1
    /\ Out.notified = 1 /\ Out.awarded = None

\* C4: when the same update of one chat is delivered twice and the two
\* handlers run concurrently, score, accumulated penalty and position end up
\* as after a single delivery.
C4_DuplicateDeliveryActsOnce ==
    delivery.phase = "two" /\ Idle
        => Outcome(Machine, delivery.chat) = delivery.want

\* the blocking calls of a handler that come after its first read of the
\* session dict and before its last write to it
BeforeLastWrite ==
    {"fb_send", "exp_send", "ph_notify", "ph_send", "fin_send", "themes_send",
     "tap_send", "sleep"}

\* thread t is between its first read and its last write of a session dict
InTransaction(t) ==
    threads[t].sess # None /\ threads[t].pc \in BeforeLastWrite

\* C5: at no time are two handlers of one chat both between their first read
\* and their last write of the chat's session record.
C5_HandlersOfOneChatExclude ==
    \A t \in Threads : \A u \in Threads \ {t} :
        threads[t].chat = threads[u].chat
            => ~(InTransaction(t) /\ InTransaction(u))

\* C6: when a send has failed while an update was served and the transport
\* has delivered the update again, score, accumulated penalty and position
\* are what a single successful delivery would have produced.
C6_RedeliveryAfterFailureActsOnce ==
    delivery.phase = "redelivered"
        => Outcome(Machine, delivery.chat) = delivery.want

\* C7: within one run, from the start-timer step until finalize or Restart,
\* timer elapsed() never decreases across any input event or clock advance.
C7_ElapsedNeverDecreasesInRun ==
    [][\A c \in Chats :
          SessOf(c).started_at # None /\ SessOf(c)'.started_at # None
              => Elapsed(c)' >= Elapsed(c)]_vars

\* while Next is awaited the timer has no running segment
PausedWhileAwaitingNext ==
    \A c \in Chats :
        SessOf(c).awaiting_next => SessOf(c).time_segment_started = None

\* C8: whenever awaiting_next is true the timer is not running, so elapsed()
\* does not grow for as long as the session stays awaiting Next.
C8_TimerPausedWhileAwaitingNext ==
    /\ []PausedWhileAwaitingNext
    /\ [][\A c \in Chats :
             SessOf(c).awaiting_next /\ SessOf(c)'.awaiting_next
                 => Elapsed(c)' = Elapsed(c)]_vars

\* Next is awaited with one second on the timer and the clock has moved on
C8_Witness ==
    /\ SessOf(1).awaiting_next
    /\ Elapsed(1) = 1
    /\ now = 2

\* C9: while awaiting_next is true, an input event other than Advance and
\* Hint (Restart aside) leaves position, score and phase, awaiting_next
\* included, unchanged.
C9_OnlyAdvanceActsWhileAwaitingNext ==
    [][\A c \in Chats :
          /\ SessOf(c).awaiting_next
          /\ \/ SessOf(c)'.index # SessOf(c).index
             \/ SessOf(c)'.score # SessOf(c).score
             \/ SessOf(c)'.state # SessOf(c).state
             \/ SessOf(c)'.awaiting_next # SessOf(c).awaiting_next
          => AdvanceSignal(c) \/ StartCommand(c)]_vars

\* the qids of the visible challenges
VisibleIds == {i \in 1..Len(QUESTIONS) : IsVisible(QUESTIONS[i])}

\* C10: total is the number of visible challenges, position stays within
\* the visible sub-sequence, and the challenge a handler presents, scores,
\* charges a hint for, delivers a hint of or awards a photo point for is a
\* visible one.
C10_OnlyVisibleChallenges ==
    /\ \A c \in Chats : SessOf(c).index <= Cardinality(VisibleIds)
    /\ Out.summary # None => Out.summary[1].total = Cardinality(VisibleIds)
    /\ \A f \in {"presented", "scored", "charged", "hint_sent", "awarded"} :
           Out[f] # None => Out[f][1] \in VisibleIds

\* the catalog begins with an invisible challenge and the challenge after
\* it got the photo point
C10_Witness ==
    /\ 1 \notin VisibleIds
    /\ Out.awarded = Some(2)

-----------------------------------------------------------------------------
(* Phases *)

\* the phase of chat c: the state field and the awaiting_next flag
Phase(c) == <<SessOf(c).state, SessOf(c).awaiting_next>>

\* a run has started and the challenge at index waits for its answer
OnChallenge(c) ==
    /\ SessOf(c).state = None
    /\ SessOf(c).started_at # None
    /\ ~SessOf(c).awaiting_next
    /\ SessOf(c).index < Total

\* the position of chat c is a Choice challenge
AtChoicePosition(c) ==
    /\ SessOf(c).index < Total
    /\ ~Active[SessOf(c).index + 1].expect_photo

\* the challenge at the position of chat c
Current(c) == Active[SessOf(c).index + 1]

\* the step leaves score, position and phase of chat c as they are
Unmoved(c) ==
    /\ SessOf(c)'.score = SessOf(c).score
    /\ SessOf(c)'.index = SessOf(c).index
    /\ Phase(c)' = Phase(c)

\* typed texts that are no option of any challenge and no Hint, Advance or
\* Restart signal
OtherTexts == {"Ready", "Start Timer"}

\* C11: in OnChallenge on a Choice challenge, an answer, typed or as button
\* payload, that is none of the challenge's options leaves score, position
\* and phase unchanged and does not set awaiting_next.
C11_NonOptionAnswerNotAccepted ==
    [][\A c \in Chats :
          OnChallenge(c) /\ AtChoicePosition(c)
              => /\ \A data \in Options :
                        ~InList(data, Current(c).options) /\ OptionButton(c, data)
                            => Unmoved(c)
                 /\ \A text \in OtherTexts :
                        ~InList(Strip(text), Current(c).options) /\ TextMessage(c, text)
                            => Unmoved(c)]_vars

\* what answer x is worth on the challenge at the position of chat c
Gain(c, x) == IF x = Current(c).answer THEN 1 ELSE 0

\* the step has judged answer x of chat c: the score has grown by its worth;
\* before the last position Next is awaited at the same position with the
\* timer paused, on the last position the summary reports the score and the
\* record is reset
Answered(c, x) ==
    IF SessOf(c).index + 1 < Total
    THEN /\ SessOf(c)'.score = SessOf(c).score + Gain(c, x)
         /\ SessOf(c)'.index = SessOf(c).index
         /\ SessOf(c)'.awaiting_next
         /\ SessOf(c)'.time_segment_started = None
         /\ Out'.summary = None
    ELSE /\ Out'.summary # None
         /\ Out'.summary[1].score = SessOf(c).score + Gain(c, x)
         /\ SessOf(c)'.score = 0
         /\ SessOf(c)'.index = 0
         /\ ~SessOf(c)'.awaiting_next

\* C12: an answer that is one of the options of the Choice challenge, given
\* in OnChallenge by button or typed, adds 1 to the score when it is the
\* correct answer and 0 otherwise and leaves the position; afterwards Next is
\* awaited with the timer paused when position + 1 < total, and the quiz has
\* been finalized when position + 1 = total.
C12_AcceptedAnswerScoresAndAwaitsNext ==
    [][\A c \in Chats :
          OnChallenge(c) /\ AtChoicePosition(c)
              => /\ \A data \in Options :
                        InList(data, Current(c).options) /\ OptionButton(c, data)
                            => Answered(c, data)
                 /\ \A text \in Texts :
                        InList(Strip(text), Current(c).options) /\ TextMessage(c, text)
                            => Answered(c, Strip(text))]_vars

\* a started run has got a correct answer after one second and awaits Next
C12_Witness ==
    /\ Out.scored # None
    /\ SessOf(1).started_at # None
    /\ SessOf(1).awaiting_next
    /\ SessOf(1).score = 1
    /\ Elapsed(1) = 1

\* the record of chat c is a fresh one
Cleared(c) ==
    /\ SessOf(c).index = 0
    /\ SessOf(c).score = 0
    /\ SessOf(c).penalty_secs = 0
    /\ SessOf(c).time_accum = 0
    /\ SessOf(c).time_segment_started = None
    /\ SessOf(c).hint_used_indices = << >>
    /\ SessOf(c).photo_awarded_for = {}
    /\ SessOf(c).exp_sent_for = {}
    /\ ~SessOf(c).awaiting_next
    /\ SessOf(c).awaiting_photo_for = None

\* C13: from any reachable state, after the START command the session has
\* position 0, score 0, no team name, penalty 0, the timer at 0 and not
\* running, no position charged a hint, awarded a photo point or shown its
\* explanations, awaiting_next false, awaiting_photo_for unset, and the
\* phase awaiting_team_name.
C13_RestartClearsTheRecord ==
    [][\A c \in Chats :
          StartCommand(c)
              => /\ Cleared(c)'
                 /\ SessOf(c)'.team_name = None
                 /\ SessOf(c)'.state = Some("awaiting_team_name")
                 /\ SessOf(c)'.started_at = None]_vars

\* the stored dict is the one the START command stores, after the clock has
\* advanced
C13_Witness ==
    /\ 1 \in DOMAIN sessions
    /\ DOMAIN heap[sessions[1]] = DOMAIN RestartSession
    /\ SessOf(1).state = Some("awaiting_team_name")
    /\ now = 2

\* C14: immediately after finalize_quiz, however it was reached, the session
\* has position 0, score 0, penalty 0, the timer at 0 and not running, no
\* position charged a hint, awarded a photo point or shown its explanations,
\* and awaiting_next false, and the team name is the one it had before.
C14_FinalizeClearsAllButTeamName ==
    [][Finalized
          => \A c \in Chats :
                 /\ Cleared(c)'
                 /\ SessOf(c)'.team_name = SessOf(c).team_name]_vars

\* a named team has finished with a point and a hint charged, and its
\* record is cleared
C14_Witness ==
    /\ Out.summary # None
    /\ Out.summary[1].score = 1
    /\ Out.summary[1].hints_used # None
    /\ SessOf(1).team_name = Some("B")
    /\ Cleared(1)

\* the point the handler of this step has scored
Scored == IF Out'.scored # None \/ Out'.awarded # None THEN 1 ELSE 0

\* the summary of this step reports score, total, elapsed time and penalty
\* of chat c as they were before the reset
SummaryOf(c) ==
    /\ Out'.summary[1].score = SessOf(c).score + Scored
    /\ Out'.summary[1].total = Total
    /\ Out'.summary[1].time = fmt_dur(Elapsed(c))
    /\ IF SessOf(c).penalty_secs > 0
       THEN /\ Out'.summary[1].penalties = Some(fmt_dur(SessOf(c).penalty_secs))
            /\ Out'.summary[1].total_time =
                   Some(fmt_dur(Elapsed(c) + SessOf(c).penalty_secs))
       ELSE /\ Out'.summary[1].penalties = None
            /\ Out'.summary[1].total_time = None
    /\ HintCharged(c) = {}
          => /\ Out'.summary[1].penalties = None
             /\ Out'.summary[1].hints_used = None

\* C15: the finish summary reports the score and the total held just before
\* the reset, the active elapsed time E, and the penalty P apart from E: with
\* P > 0 it shows P and the total E + P, and with no hint charged it shows
\* the time line and neither a penalty nor a hint line.
C15_SummaryReportsTheRun ==
    [][Finalized => \A c \in Chats : SummaryOf(c)]_vars

\* two Choice challenges, each answered correctly, no hint: the summary
\* reports 2 of 2 after two seconds and no penalty
C15_Witness ==
    /\ \A i \in 1..Len(QUESTIONS) : ~QUESTIONS[i].expect_photo
    /\ Out.summary # None
    /\ Out.summary[1].score = 2
    /\ Out.summary[1].total = 2
    /\ Out.summary[1].time = <<0, 2>>
    /\ Out.summary[1].penalties = None
    /\ Out.summary[1].hints_used = None

\* the start-timer signal, by button or typed
StartTimerSignal(c) == StartTimerButton(c) \/ TextMessage(c, "Start Timer")

\* C16: after a start-timer signal served while the session awaits it and no
\* run has started, the timer has accumulated 0 and runs, the penalty is 0,
\* the position is 0 and the phase is OnChallenge, whatever was served
\* before.
C16_StartTimerStartsAFreshRun ==
    [][\A c \in Chats :
          /\ SessOf(c).state = Some("awaiting_timer")
          /\ SessOf(c).started_at = None
          /\ Total > 0
          /\ StartTimerSignal(c)
          => /\ SessOf(c)'.time_accum = 0
             /\ SessOf(c)'.time_segment_started # None
             /\ SessOf(c)'.penalty_secs = 0
             /\ SessOf(c)'.index = 0
             /\ OnChallenge(c)']_vars

\* machine m with the records of all chats but b taken away
Alone(m, b) ==
    [m EXCEPT !.sessions = [c \in DOMAIN m.sessions \cap {b} |-> m.sessions[c]],
              !.heap = [id \in {m.sessions[c] : c \in DOMAIN m.sessions \cap {b}}
                            |-> m.heap[id]]]

\* the record of chat b in machine m, if it has one
RecordOf(m, b) ==
    IF b \in DOMAIN m.sessions THEN Some(m.heap[m.sessions[b]]) ELSE None

\* what serving ev does to the record of chat b does not depend on the
\* records of the other chats
ServedAlike(b, ev) ==
    RecordOf(Served(b, ev), b)
        = RecordOf(Run(Begin(Alone(Machine, b), 1, b, ev, None, TRUE), 1), b)

\* serving an update of chat a leaves the record of every other chat
LeavesOthers(a) ==
    \A b \in Pair \ {a} :
        /\ (b \in DOMAIN sessions') = (b \in DOMAIN sessions)
        /\ b \in DOMAIN sessions
              => /\ sessions'[b] = sessions[b]
                 /\ heap'[sessions'[b]] = heap[sessions[b]]

\* C17: the sessions of distinct chats are independent: serving an update of
\* chat a leaves the record of every other chat unchanged, and what an update
\* does to the record of its own chat is the same whatever the records of
\* the other chats are.
C17_ChatsAreIndependent ==
    /\ [](\A b \in Pair, ev \in PairEvents : ServedAlike(b, ev))
    /\ [][\A a \in Pair, ev \in PairEvents : Serve(a, ev) => LeavesOthers(a)]_vars

\* chat 1 awaits Next with a point and chat 2 has just been restarted
C17_Witness ==
    /\ DOMAIN sessions = Pair
    /\ SessOf(1).score = 1 /\ SessOf(1).awaiting_next
    /\ SessOf(2).state = Some("awaiting_team_name")
    /\ SessOf(2).score = 0

\* C18: a lost admin notification (the forwarded photo, the finalize
\* summary) does not make the handler fail: no exception leaves it and the
\* session record after it is the one the handler leaves when the
\* notification goes through.
C18_LostNotificationChangesNothing ==
    [][\A c \in Chats, ev \in Events :
          Unnotified(c, ev)
              => /\ ~Out'.raised
                 /\ RecordOf(Machine, c)' = RecordOf(Served(c, ev), c)]_vars

\* a photo for the last challenge was served, both the forwarded photo and
\* the summary were lost, the point was awarded and the run finalized
C18_Witness ==
    /\ Out.lost = 2
    /\ Out.awarded # None
    /\ Out.summary # None
    /\ SessOf(1).index = 0 /\ SessOf(1).score = 0

\* the webhook can serve what the session of a cooperating participant asks
\* for
Responsive ==
    Cooperating => \A c \in Chats : RunScoreOk(Served(c, Expected(SessOf(c))))

\* C19: every session can reach its end: from every reachable state, when the
\* participant sends only the input the session asks for and each input is
\* served, the run is finalized (the summary is sent) in the end.
C19_ExpectedInputLeadsToFinalize ==
    /\ []Responsive
    /\ Cooperating ~> (Cooperating /\ Out.summary # None)

\* the participant sent what the session asked for from the team name on and
\* the run ended with every point of a two-question catalog
C19_Witness ==
    /\ Cooperating
    /\ Out.summary # None
    /\ Total = 2
    /\ Out.summary[1].score = 2
    /\ SessOf(1).team_name = Some("B")

\* no run is under way for chat c: the session awaits the team name, READY
\* or Start Timer, or it is fresh or finalized and no Start Timer has set
\* started_at since
BeforeRun(c) == SessOf(c).state # None \/ SessOf(c).started_at = None

\* the step serves an answer of chat c: an option button, a typed option or
\* a photo
AnswerInput(c) ==
    \/ \E data \in Options : OptionButton(c, data)
    \/ TextMessage(c, " B ")
    \/ PhotoMessage(c)

\* C20: the score grows only in OnChallenge of a started run: an answer or a
\* photo served while the session awaits the team name, READY or Start
\* Timer, on a fresh session, or after finalize and before the next Start
\* Timer leaves the score unchanged and does not set awaiting_next.
C20_NoScoreBeforeRun ==
    [][\A c \in Chats :
          BeforeRun(c) /\ AnswerInput(c)
              => /\ SessOf(c).score' = SessOf(c).score
                 /\ SessOf(c).awaiting_next' => SessOf(c).awaiting_next]_vars

\* the step leaves position, score, phase and timer of chat c as they were
Untouched(c) ==
    /\ Unmoved(c)
    /\ SessOf(c).time_accum' = SessOf(c).time_accum
    /\ SessOf(c).time_segment_started' = SessOf(c).time_segment_started

\* C21: the READY button acts only while READY is awaited and the Start
\* Timer button only while Start Timer is awaited: pressed in any other
\* phase they leave position, score, phase, awaiting_next and the timer
\* unchanged.
C21_ReadyAndStartTimerOnlyInTheirPhase ==
    [][\A c \in Chats :
          /\ SessOf(c).state # Some("awaiting_ready") /\ ReadyButton(c)
                => Untouched(c)
          /\ SessOf(c).state # Some("awaiting_timer") /\ StartTimerButton(c)
                => Untouched(c)]_vars

\* the step has advanced chat c: before the last position the index has
\* grown by 1 with the score kept, awaiting_next and awaiting_photo_for
\* cleared and the timer running; from the last position the run is
\* finalized with the score it had
Advanced(c) ==
    IF SessOf(c).index + 1 < Total
    THEN /\ SessOf(c).index' = SessOf(c).index + 1
         /\ SessOf(c).score' = SessOf(c).score
         /\ ~SessOf(c).awaiting_next'
         /\ SessOf(c).awaiting_photo_for' = None
         /\ SessOf(c).time_segment_started' # None
         /\ Out'.summary = None
    ELSE /\ Out'.summary # None
         /\ Out'.summary[1].score = SessOf(c).score
         /\ SessOf(c).index' = 0

\* C22: the position grows only by an Advance signal served while
\* awaiting_next is true, and then by exactly 1 with the score unchanged,
\* awaiting_next and awaiting_photo_for cleared and the timer resumed (or the
\* run finalized from the last position); an Advance signal served while
\* awaiting_next is false changes neither position nor score.
C22_PositionGrowsOnlyByAdvance ==
    [][\A c \in Chats :
          /\ SessOf(c).index' > SessOf(c).index
                => SessOf(c).awaiting_next /\ AdvanceSignal(c)
          /\ SessOf(c).awaiting_next /\ AdvanceSignal(c) => Advanced(c)
          /\ ~SessOf(c).awaiting_next /\ AdvanceSignal(c)
                => /\ SessOf(c).index' = SessOf(c).index
                   /\ SessOf(c).score' = SessOf(c).score]_vars

\* the step serves an input of chat c that is neither the READY signal nor
\* the START command nor Start Timer: free text, an option, Hint, Next, the
\* Upload Photo button or a photo
NonReadyInput(c) ==
    \/ \E text \in Texts \ {"/start", "Ready", "Start Timer"} : TextMessage(c, text)
    \/ \E data \in Options : OptionButton(c, data)
    \/ HintButton(c)
    \/ NextButton(c)
    \/ PhotoButton(c)
    \/ PhotoMessage(c)

\* C23: while READY is awaited, every input other than the READY signal and
\* the START command leaves the whole session record unchanged.
C23_AwaitingReadyIgnoresOtherInput ==
    [][\A c \in Chats :
          SessOf(c).state = Some("awaiting_ready") /\ NonReadyInput(c)
              => SessOf(c)' = SessOf(c)]_vars

\* a run is under way for chat c and it awaits Next
AwaitingAdvance(c) ==
    /\ SessOf(c).state = None
    /\ SessOf(c).started_at # None
    /\ SessOf(c).awaiting_next

\* record d with its accumulated penalty and its charged positions blanked
SavePenalty(d) == [d EXCEPT !.penalty_secs = 0, !.hint_used_indices = << >>]

\* C24: a Hint signal, in OnChallenge or while Next is awaited, changes
\* nothing in the session record except the accumulated penalty and the
\* charged positions: position, score, phase, awaiting_next,
\* awaiting_photo_for, photo_awarded_for and the timer stay as they are.
C24_HintChangesOnlyPenalty ==
    [][\A c \in Chats :
          (OnChallenge(c) \/ AwaitingAdvance(c)) /\ HintSignal(c)
              => SavePenalty(SessOf(c))' = SavePenalty(SessOf(c))]_vars

\* a hint was charged and delivered while Next is awaited with the timer
\* paused
C24_Witness ==
    /\ AwaitingAdvance(1)
    /\ Out.charged # None /\ Out.hint_sent # None
    /\ SessOf(1).penalty_secs = HINT_PENALTY_SECS
    /\ SessOf(1).time_segment_started = None

\* score, accumulated penalty and position of the dict d
Tally(d) == <<Backfill(d).score, Backfill(d).penalty_secs, Backfill(d).index>>

\* the dict id is the one the registry holds for some chat after the step
Stored(id) == \E c \in DOMAIN sessions' : sessions'[c] = id

\* C25: the registry holds one session record per chat and no update to it
\* is lost: when two updates of one chat are served concurrently, every
\* write of a handler to score, penalty or position goes to the dict that is
\* stored for the chat.
C25_NoUpdateIsLost ==
    [][\A id \in DOMAIN heap \cap DOMAIN heap' :
          Tally(heap'[id]) # Tally(heap[id]) => Stored(id)]_vars

\* C26: the pacing sleep between Next and the next question breaks no
\* invariant: when another update of the chat is served during the sleep,
\* then once both handlers have ended awaiting_next still implies a paused
\* timer, and the question the overtaking handler gave a point for is not
\* given a point again by the next update.
C26_PacingSleepBreaksNoInvariant ==
    /\ delivery.phase = "delayed" /\ Idle
          => \A c \in Chats :
                 SessOf(c).awaiting_next => SessOf(c).time_segment_started = None
    /\ delivery.phase = "after" /\ delivery.want # None
          => Credited(Out) # delivery.want

\* the timer of dict d runs
Running(d) == Get(d, "time_segment_started", None) # None

\* C27: the timer functions are idempotent: timer_resume on a running timer
\* and timer_pause on a paused timer change nothing, so a second resume or
\* pause, at the same or a later time, changes nothing; and timer_elapsed
\* is time_accum plus the time since time_segment_started when the timer
\* runs and time_accum alone when it is paused, never below 0.
C27_TimerIsIdempotent ==
    \A c \in Chats :
        /\ Running(heap[sessions[c]])
              => timer_resume(heap[sessions[c]], now) = heap[sessions[c]]
        /\ ~Running(heap[sessions[c]])
              => timer_pause(heap[sessions[c]], now) = heap[sessions[c]]
        /\ \A later \in now..MaxClock :
              /\ timer_resume(timer_resume(heap[sessions[c]], now), later)
                     = timer_resume(heap[sessions[c]], now)
              /\ timer_pause(timer_pause(heap[sessions[c]], now), later)
                     = timer_pause(heap[sessions[c]], now)
        /\ timer_elapsed(heap[sessions[c]], now)
              = Get(heap[sessions[c]], "time_accum", 0)
                    + (IF Running(heap[sessions[c]])
                       THEN now - heap[sessions[c]].time_segment_started[1] ELSE 0)
        /\ timer_elapsed(heap[sessions[c]], now) >= 0

\* the timer was paused with time accumulated, resumed, and has run since
C27_Witness ==
    /\ DOMAIN heap = {<<1, 0>>}
    /\ Running(heap[<<1, 0>>])
    /\ Get(heap[<<1, 0>>], "time_accum", 0) > 0
    /\ heap[<<1, 0>>].time_segment_started[1] < now

\* the step stores text as the team name of chat c, which awaited it
NameCaptured(c, text) ==
    /\ SessOf(c).state = Some("awaiting_team_name")
    /\ TextMessage(c, text)
    /\ SessOf(c).team_name' = Some(Strip(text))
    /\ SessOf(c).state' = Some("awaiting_ready")

\* C28: the team name is captured at most once per run: it is set only by a
\* non-empty text served while the team name is awaited, which moves the
\* session to awaiting_ready; it is cleared only by the START command; no
\* other update changes it.
C28_TeamNameSetOncePerRun ==
    [][\A c \in Chats :
          /\ SessOf(c).team_name' # SessOf(c).team_name
                => \/ StartCommand(c) /\ SessOf(c).team_name' = None
                   \/ \E text \in Texts \ {"/start", ""} : NameCaptured(c, text)
          /\ \A text \in Texts \ {"/start", ""} :
                SessOf(c).state = Some("awaiting_team_name") /\ TextMessage(c, text)
                    => NameCaptured(c, text)]_vars

\* a run was finalized and the team name captured before it is still there
C28_Witness ==
    /\ Out.summary # None
    /\ SessOf(1).team_name = Some("B")
    /\ SessOf(1).state = None

\* no hint can be given at the position of chat c: it is past the last
\* question, or its question has neither hint text nor hint image
NoHintToGive(c) ==
    \/ SessOf(c).index >= Total
    \/ /\ hint_text(Current(c)) = ""
       /\ hint_image(Current(c)) = ""

\* what the catalog has as hint of the question at the position of chat c
\* is empty or blank
BlankHint(c) ==
    /\ Current(c).hint \in {None, Some(""), Some("   ")}
    /\ Current(c).hint_image \in {None, Some("")}

\* C29: a Hint signal that cannot deliver a hint charges nothing: when the
\* question at the position has neither hint text nor hint image, or the
\* position is past the last question, the accumulated penalty and the
\* charged positions stay as they are.
C29_NoHintNoCharge ==
    [][\A c \in Chats :
          /\ SessOf(c).index < Total => (NoHintToGive(c) <=> BlankHint(c))
          /\ NoHintToGive(c) /\ HintSignal(c)
                => /\ SessOf(c).penalty_secs' = SessOf(c).penalty_secs
                   /\ SessOf(c).hint_used_indices' = SessOf(c).hint_used_indices
                   /\ Out'.charged = None]_vars

\* a hint was charged at position 0 and the Hint signal at position 1, whose
\* question has a blank hint, was answered that there is none
C29_Witness ==
    /\ Out.no_hint
    /\ SessOf(1).index = 1 /\ Total = 2
    /\ SessOf(1).hint_used_indices = <<0>>
    /\ SessOf(1).penalty_secs = HINT_PENALTY_SECS

====
